---- MODULE Spec2Model ----
(***************************************************************************)
(* The DreamerV3 training driver of examples/dreamerv3/dreamer.py: the     *)
(* Dreamer agent (construction, __call__, _train) and main's evaluation /  *)
(* training / checkpoint loop, as a state machine.  The numeric kernels    *)
(* the driver calls (the lambda-return recursion and the EMA percentile    *)
(* update of the actor-critic) are operators with their own                *)
(* specifications.                                                         *)
(***************************************************************************)
EXTENDS Integers, Sequences, FiniteSets, TLC

VARIABLES
    pc,                 \* position of main / of the agent call in progress
    err,                \* exception that ended the process, "none" while running
    cfg,                \* config (utils.load_config), mutated by main lines 78-80
    num_envs,           \* len(train_envs) = len(done) of every training call
    traindir_steps,     \* count_steps(config.traindir) at startup
    ckpt,               \* logdir/latest.safetensors: does it exist, what it holds
    logger_step,        \* logger.step
    logged,             \* scalars of the agent's latest logger write
    _num_train_steps,   \* Dreamer._num_train_steps
    pretrained,         \* Dreamer.pretrained
    _metrics,           \* Dreamer._metrics
    _step,              \* Dreamer._step
    _update_count,      \* Dreamer._update_count
    params,             \* parameters of world_model and actor_critic
    dataset_pos,        \* batches pulled from the dataset iterator so far
    frame,              \* locals of the __call__ / _train in progress
    sim,                \* locals of the simulate in progress
    hist,               \* history (ghost) record used to state the properties
    lam,                \* a lambda-return computation: its inputs and its result
    ema,                \* the actor-critic's ema_vals and the calls that update them
    world,              \* a world model: its sizes, its train calls, the posterior returned
    imag                \* an imagination rollout: its seed and what it has recorded

vars == <<pc, err, cfg, num_envs, traindir_steps, ckpt, logger_step, logged,
          _num_train_steps, pretrained, _metrics, _step, _update_count, params,
          dataset_pos, frame, sim, hist, lam, ema, world, imag>>

main_vars == <<pc, err, cfg, num_envs, traindir_steps, ckpt, logger_step, logged,
               _num_train_steps, pretrained, _metrics, _step, _update_count, params,
               dataset_pos, frame, sim, hist>>

kernel_vars == <<lam, ema, world, imag>>

agent_vars == <<_num_train_steps, pretrained, _metrics, _step, _update_count, params>>

----------------------------------------------------------------------------
(* Bounds of the model *)

MaxBatchSize == 2
MaxTrainRatio == 3
MaxNegTrainRatio == 1
MaxPretrain == 3
MaxEnvs == 2
MaxTraindirSteps == 2
MaxRawSteps == 2
MaxActionRepeat == 2
MaxRawEvalEvery == 2
MaxRawLogEvery == 2
MaxExplUntil == 2

\* The configurations and environments the model starts from.  The step
\* budgets are the values of the config file, before main divides them by
\* action_repeat; train_ratio ranges over negative values, zero and values
\* above batch_size * batch_length.
BatchSizes == 1..MaxBatchSize
BatchLengths == {1}
TrainRatios == (0 - MaxNegTrainRatio)..MaxTrainRatio
Pretrains == {0, MaxPretrain}
ActionRepeats == 1..MaxActionRepeat
RawSteps == 1..MaxRawSteps
RawEvalEvery == 1..MaxRawEvalEvery
RawLogEvery == 1..MaxRawLogEvery
EvalEpisodeNums == {0, 1}
Prefills == {0, 1}
ExplUntils == {0, MaxExplUntil}

----------------------------------------------------------------------------
(* Helpers *)

\* Python's a // b (floor division), b # 0
FloorDiv(a, b) == a \div b

\* Python's max(a, b)
Max(a, b) == IF a >= b THEN a ELSE b

RECURSIVE SumSeq(_)
SumSeq(s) == IF s = <<>> THEN 0 ELSE Head(s) + SumSeq(Tail(s))

\* The names under which scalars are accumulated: the world model's metrics,
\* the actor-critic's metrics, and the counter __call__ adds itself.
WMMetricNames == {"model_loss"}
ACMetricNames == {"actor_loss"}
MetricNames == WMMetricNames \cup ACMetricNames \cup {"update_count"}

Absent == [kind |-> "absent", v |-> <<>>]
ListOf(s) == [kind |-> "list", v |-> s]
IntOf(n) == [kind |-> "int", v |-> <<n>>]

\* float(np.mean(values)): the mean of a list (nan when it is empty), the
\* number itself when values is a plain number.  A mean is kept as sum / n.
NaN == [nan |-> TRUE, sum |-> 0, n |-> 0]
NpMean(values) ==
    IF values.kind = "int" THEN [nan |-> FALSE, sum |-> values.v[1], n |-> 1]
    ELSE IF values.v = <<>> THEN NaN
    ELSE [nan |-> FALSE, sum |-> SumSeq(values.v), n |-> Len(values.v)]

\* value.item() of a metric of the train step on batch b.  The float is
\* abstracted to a number that identifies the batch, so that the values of
\* different train steps differ.
WMMetricValue(b) == 2 * b
ACMetricValue(post) == 2 * post + 1

NoCkpt == [exists |-> FALSE, params |-> [base |-> "none", wm |-> 0, ac |-> 0]]
DiskCkpt == [exists |-> TRUE, params |-> [base |-> "disk", wm |-> 0, ac |-> 0]]
FreshParams == [base |-> "init", wm |-> 0, ac |-> 0]

NoFrame == [num_steps |-> 0, i |-> 0, data |-> 0, post |-> 0]
NoSim == [step |-> 0, episode |-> 0]

NoEntry == [step |-> 0, pretrained |-> FALSE, logger_step |-> 0]

\* History of the run, read by the properties only.
NoHist ==
    [had_ckpt |-> FALSE,        \* a checkpoint existed at startup
     loads |-> 0,               \* checkpoint loads so far
     called |-> FALSE,          \* the agent has been called (training or not)
     train_calls |-> 0,         \* training calls begun so far
     pretrain_runs |-> 0,       \* training calls that ran config.pretrain steps
     call_pretrain |-> FALSE,   \* the latest training call was such a call
     call_steps |-> 0,          \* train steps completed in the latest training call
     entry |-> NoEntry,         \* agent fields at entry of the latest training call
     wm_updates |-> 0,          \* world-model updates so far
     ac_updates |-> 0,          \* actor-critic updates so far
     wm_batch |-> 0,            \* batch of the latest world-model update
     prev_post |-> 0,           \* posterior of the world-model update before it
     ac_seed |-> 0,             \* posterior the latest actor-critic update started from
     iter_step |-> 0,           \* _step when the current loop iteration began
     eval_after |-> FALSE,      \* an evaluation began with _step >= config.steps
     window |-> [n \in MetricNames |-> <<>>],   \* values produced since the latest write
     reported |-> [n \in MetricNames |-> <<>>], \* the window the latest write reported
     writes |-> 0,              \* agent logger writes so far
     write_step |-> 0,          \* _step at the latest of them (before any: at the
                                \* entry of the first training call)
     call_wrote |-> FALSE,      \* the latest training call wrote the metrics
     write_count |-> 0,         \* _update_count at the latest write
     queried |-> FALSE,         \* some call has queried the policy
     explore |-> FALSE,         \* the explore flag the latest such call passed to it
     explore_off |-> FALSE,     \* some call has passed explore = False
     saved_calls |-> 0,         \* train_calls at the latest checkpoint save
     train_raised |-> FALSE]    \* a world-model or actor-critic pass has raised

\* The kernels' variables while main is what runs
NoLam == [stage |-> "idle"]
NoEma == [stage |-> "idle"]
NoWorld == [stage |-> "idle"]
NoImag == [stage |-> "idle"]

----------------------------------------------------------------------------
(* Initial state: the process has started, nothing of main has run. *)

Init ==
    /\ pc = "startup"
    /\ err = "none"
    /\ cfg \in [batch_size : BatchSizes, batch_length : BatchLengths,
                train_ratio : TrainRatios, pretrain : Pretrains,
                action_repeat : ActionRepeats, steps : RawSteps,
                eval_every : RawEvalEvery, log_every : RawLogEvery,
                eval_episode_num : EvalEpisodeNums, prefill : Prefills,
                expl_until : ExplUntils]
    /\ num_envs \in 1..MaxEnvs
    /\ traindir_steps \in 0..MaxTraindirSteps
    /\ ckpt \in {NoCkpt, DiskCkpt}
    /\ logger_step = 0
    /\ logged = [n \in MetricNames |-> Absent]
    /\ _num_train_steps = 0
    /\ pretrained = FALSE
    /\ _metrics = [n \in MetricNames |-> Absent]
    /\ _step = 0
    /\ _update_count = 0
    /\ params = NoCkpt.params
    /\ dataset_pos = 0
    /\ frame = NoFrame
    /\ sim = NoSim
    /\ hist = [NoHist EXCEPT !.had_ckpt = ckpt.exists]
    /\ lam = NoLam
    /\ ema = NoEma
    /\ world = NoWorld
    /\ imag = NoImag

----------------------------------------------------------------------------
(* main, lines 73-127: startup *)

\* main lines 73-88: load the config, divide the step budgets by
\* action_repeat, create the logger at the environment step of traindir.
Startup ==
    /\ pc = "startup"
    /\ cfg' = [cfg EXCEPT !.steps = FloorDiv(@, cfg.action_repeat),
                          !.eval_every = FloorDiv(@, cfg.action_repeat),
                          !.log_every = FloorDiv(@, cfg.action_repeat)]
    /\ logger_step' = cfg.action_repeat * traindir_steps
    /\ pc' = "prefill"
    /\ UNCHANGED <<err, num_envs, traindir_steps, ckpt, logged, agent_vars,
                   dataset_pos, frame, sim, hist>>
    /\ UNCHANGED kernel_vars

\* main lines 108-115: prefill the dataset with a random agent; the logger
\* advances by the prefilled environment steps.
Prefill ==
    /\ pc = "prefill"
    /\ LET prefill == Max(0, cfg.prefill - traindir_steps)
       IN  logger_step' = logger_step + prefill * cfg.action_repeat
    /\ pc' = "construct"
    /\ UNCHANGED <<err, cfg, num_envs, traindir_steps, ckpt, logged, agent_vars,
                   dataset_pos, frame, sim, hist>>
    /\ UNCHANGED kernel_vars

\* Dreamer.__init__ line 20: the test that rejects a configuration
ZeroTrainSteps(n) == n = 0

\* Dreamer.__init__, called at main line 120
Construct ==
    /\ pc = "construct"
    /\ IF cfg.train_ratio = 0
       THEN \* line 19 divides by zero
            /\ pc' = "raised"
            /\ err' = "ZeroDivisionError"
            /\ UNCHANGED agent_vars
       ELSE LET batch_steps == cfg.batch_size * cfg.batch_length
                n == FloorDiv(batch_steps, cfg.train_ratio)
            IN  IF ZeroTrainSteps(n)
                THEN /\ pc' = "raised"
                     /\ err' = "ValueError"
                     /\ _num_train_steps' = n
                     /\ UNCHANGED <<pretrained, _metrics, _step, _update_count, params>>
                ELSE /\ pc' = "load_checkpoint"
                     /\ err' = err
                     /\ _num_train_steps' = n
                     /\ pretrained' = FALSE
                     /\ _metrics' = [m \in MetricNames |-> Absent]
                     /\ _step' = FloorDiv(logger_step, cfg.action_repeat)
                     /\ _update_count' = 0
                     /\ params' = FreshParams
    /\ UNCHANGED <<cfg, num_envs, traindir_steps, ckpt, logger_step, logged,
                   dataset_pos, frame, sim, hist>>
    /\ UNCHANGED kernel_vars

\* main lines 124-127: load latest.safetensors if it exists
LoadCheckpoint ==
    /\ pc = "load_checkpoint"
    /\ IF ckpt.exists
       THEN /\ params' = ckpt.params
            /\ pretrained' = TRUE
            /\ hist' = [hist EXCEPT !.loads = @ + 1]
       ELSE UNCHANGED <<params, pretrained, hist>>
    /\ pc' = "loop"
    /\ UNCHANGED <<err, cfg, num_envs, traindir_steps, ckpt, logger_step, logged,
                   _num_train_steps, _metrics, _step, _update_count,
                   dataset_pos, frame, sim>>
    /\ UNCHANGED kernel_vars

----------------------------------------------------------------------------
(* main, lines 130-150: the evaluation / training loop *)

\* main line 130: the loop condition
LoopCond == _step < cfg.steps + cfg.eval_every

\* main lines 130-131 (the loop is entered) or 149-150 (it is left)
LoopTest ==
    /\ pc = "loop"
    /\ IF LoopCond
       THEN /\ pc' = "eval_phase"
            /\ hist' = [hist EXCEPT !.iter_step = _step]
       ELSE /\ pc' = "done"
            /\ hist' = hist
    /\ UNCHANGED <<err, cfg, num_envs, traindir_steps, ckpt, logger_step, logged,
                   agent_vars, dataset_pos, frame, sim>>
    /\ UNCHANGED kernel_vars

\* main lines 132-133: an evaluation is run when eval_episode_num > 0
EvalStart ==
    /\ pc = "eval_phase"
    /\ IF cfg.eval_episode_num > 0
       THEN /\ pc' = "eval_sim"
            /\ sim' = [step |-> 0, episode |-> 0]
            /\ hist' = [hist EXCEPT !.eval_after = @ \/ _step >= cfg.steps]
       ELSE /\ pc' = "train_phase"
            /\ UNCHANGED <<sim, hist>>
    /\ UNCHANGED <<err, cfg, num_envs, traindir_steps, ckpt, logger_step, logged,
                   agent_vars, dataset_pos, frame>>
    /\ UNCHANGED kernel_vars

\* (mutant) exploration lasts one step longer
ExploreUpTo(step) == step <= cfg.expl_until

\* line 50: explore = self._step < self._expl_until
Explore(step) == step < cfg.expl_until

\* (mutant) the step counters advance whether the call trains or not
CallNotTrainingCounted ==
    /\ _step' = _step + num_envs
    /\ logger_step' = cfg.action_repeat * (_step + num_envs)
    /\ UNCHANGED <<_num_train_steps, pretrained, _metrics, _update_count, params,
                   logged, dataset_pos, frame>>

\* Dreamer.__call__ with training=False (lines 34-35 skipped, 50-52): only the
\* policy is queried.
CallNotTraining ==
    UNCHANGED <<agent_vars, logger_step, logged, dataset_pos, frame>>

\* simulate(eval_policy, ..., episodes=eval_episode_num), main line 136: the
\* agent is called with training=False until the episodes are done; a call
\* may or may not end an episode.
EvalCall ==
    /\ pc = "eval_sim"
    /\ sim.episode < cfg.eval_episode_num
    /\ CallNotTraining
    /\ \E done \in BOOLEAN :
          sim' = [sim EXCEPT !.episode = IF done THEN @ + 1 ELSE @]
    /\ hist' = [hist EXCEPT !.called = TRUE,
                            !.queried = TRUE,
                            !.explore = Explore(_step),
                            !.explore_off = @ \/ ~Explore(_step)]
    /\ UNCHANGED <<pc, err, cfg, num_envs, traindir_steps, ckpt>>
    /\ UNCHANGED kernel_vars

\* main lines 136-142: the evaluation is over, training starts
EvalEnd ==
    /\ pc = "eval_sim"
    /\ sim.episode >= cfg.eval_episode_num
    /\ pc' = "train_phase"
    /\ UNCHANGED <<err, cfg, num_envs, traindir_steps, ckpt, logger_step, logged,
                   agent_vars, dataset_pos, frame, sim, hist>>
    /\ UNCHANGED kernel_vars

\* main line 144: simulate(agent, ..., steps=config.eval_every) begins
TrainStart ==
    /\ pc = "train_phase"
    /\ sim' = [step |-> 0, episode |-> 0]
    /\ pc' = "train_sim"
    /\ UNCHANGED <<err, cfg, num_envs, traindir_steps, ckpt, logger_step, logged,
                   agent_vars, dataset_pos, frame, hist>>
    /\ UNCHANGED kernel_vars

\* simulate's loop: while its step counter is below `steps` it calls the
\* agent once for all environments and counts one step per environment.
SimulateStep ==
    /\ pc = "train_sim"
    /\ sim.step < cfg.eval_every
    /\ sim' = [sim EXCEPT !.step = @ + num_envs]
    /\ pc' = "call_entry"
    /\ UNCHANGED <<err, cfg, num_envs, traindir_steps, ckpt, logger_step, logged,
                   agent_vars, dataset_pos, frame, hist>>
    /\ UNCHANGED kernel_vars

\* simulate returns to main line 145
SimulateReturn ==
    /\ pc = "train_sim"
    /\ sim.step >= cfg.eval_every
    /\ pc' = "save"
    /\ UNCHANGED <<err, cfg, num_envs, traindir_steps, ckpt, logger_step, logged,
                   agent_vars, dataset_pos, frame, sim, hist>>
    /\ UNCHANGED kernel_vars

\* (mutant) only the world model's parameters are up to date in the file
StateDictWorldModelOnly == [params EXCEPT !.ac = 0]

\* main line 145: get_state_dict(agent)
StateDict == params

\* main lines 145-146: save the agent's parameters
SaveCheckpoint ==
    /\ pc = "save"
    /\ ckpt' = [exists |-> TRUE, params |-> StateDict]
    /\ hist' = [hist EXCEPT !.saved_calls = hist.train_calls]
    /\ pc' = "loop"
    /\ UNCHANGED <<err, cfg, num_envs, traindir_steps, logger_step, logged,
                   agent_vars, dataset_pos, frame, sim>>
    /\ UNCHANGED kernel_vars

----------------------------------------------------------------------------
(* Dreamer.__call__ with training=True, and Dreamer._train *)

\* line 36: the number of train steps of this call
NumSteps == IF ~pretrained THEN cfg.pretrain ELSE _num_train_steps

\* lines 34-36: the call is entered
CallBegin ==
    /\ pc = "call_entry"
    /\ frame' = [num_steps |-> NumSteps, i |-> 0, data |-> 0, post |-> 0]
    /\ hist' = [hist EXCEPT !.called = TRUE,
                            !.train_calls = @ + 1,
                            !.call_pretrain = ~pretrained,
                            !.pretrain_runs = IF ~pretrained THEN @ + 1 ELSE @,
                            !.call_steps = 0,
                            !.write_step = IF hist.train_calls = 0 THEN _step ELSE @,
                            !.call_wrote = FALSE,
                            !.entry = [step |-> _step, pretrained |-> pretrained,
                                       logger_step |-> logger_step]]
    /\ pc' = "call_loop"
    /\ UNCHANGED <<err, cfg, num_envs, traindir_steps, ckpt, logger_step, logged,
                   agent_vars, dataset_pos, sim>>
    /\ UNCHANGED kernel_vars

\* lines 37-38: range(num_steps) has another element; next(self._dataset)
PullBatch ==
    /\ pc = "call_loop"
    /\ frame.i < frame.num_steps
    /\ dataset_pos' = dataset_pos + 1
    /\ frame' = [frame EXCEPT !.data = dataset_pos + 1]
    /\ pc' = "wm_train"
    /\ UNCHANGED <<err, cfg, num_envs, traindir_steps, ckpt, logger_step, logged,
                   agent_vars, sim, hist>>
    /\ UNCHANGED kernel_vars

\* line 56: post, context, mets = self.world_model.train(data).  The update
\* is applied and the posterior of this batch returned, or the pass raises.
WorldModelTrain ==
    /\ pc = "wm_train"
    /\ \/ /\ params' = [params EXCEPT !.wm = @ + 1]
          /\ frame' = [frame EXCEPT !.post = frame.data]
          /\ hist' = [hist EXCEPT !.wm_updates = @ + 1,
                                  !.wm_batch = frame.data,
                                  !.prev_post = hist.wm_batch]
          /\ pc' = "ac_train"
          /\ err' = err
       \/ /\ pc' = "failed"
          /\ err' = "TrainError"
          /\ hist' = [hist EXCEPT !.train_raised = TRUE]
          /\ UNCHANGED <<params, frame>>
    /\ UNCHANGED <<cfg, num_envs, traindir_steps, ckpt, logger_step, logged,
                   _num_train_steps, pretrained, _metrics, _step, _update_count,
                   dataset_pos, sim>>
    /\ UNCHANGED kernel_vars

\* (mutant) the actor-critic is seeded with the posterior of the step before
ActorCriticSeedStale == hist.prev_post

\* line 63: the posterior handed to self.actor_critic.train
ActorCriticSeed == frame.post

\* (mutant) a raising actor-critic pass is caught and the step goes on
ActorCriticTrainSwallowed ==
    /\ pc = "ac_train"
    /\ \/ /\ params' = [params EXCEPT !.ac = @ + 1]
          /\ hist' = [hist EXCEPT !.ac_updates = @ + 1,
                                  !.ac_seed = frame.post]
       \/ /\ hist' = [hist EXCEPT !.train_raised = TRUE]
          /\ UNCHANGED params
    /\ pc' = "accumulate"
    /\ UNCHANGED <<err, cfg, num_envs, traindir_steps, ckpt, logger_step, logged,
                   _num_train_steps, pretrained, _metrics, _step, _update_count,
                   dataset_pos, frame, sim>>
    /\ UNCHANGED kernel_vars

\* line 63: self.actor_critic.train(post, reward), or the pass raises
ActorCriticTrain ==
    /\ pc = "ac_train"
    /\ \/ /\ params' = [params EXCEPT !.ac = @ + 1]
          /\ hist' = [hist EXCEPT !.ac_updates = @ + 1,
                                  !.ac_seed = ActorCriticSeed]
          /\ pc' = "accumulate"
          /\ err' = err
       \/ /\ pc' = "failed"
          /\ err' = "TrainError"
          /\ hist' = [hist EXCEPT !.train_raised = TRUE]
          /\ UNCHANGED params
    /\ UNCHANGED <<cfg, num_envs, traindir_steps, ckpt, logger_step, logged,
                   _num_train_steps, pretrained, _metrics, _step, _update_count,
                   dataset_pos, frame, sim>>
    /\ UNCHANGED kernel_vars

\* lines 55-63: the metrics of one train step, by name
StepMetrics(f) ==
    [n \in WMMetricNames \cup ACMetricNames |->
        IF n \in ACMetricNames THEN ACMetricValue(f.post) ELSE WMMetricValue(f.data)]

\* lines 66-69: append a value to the list kept under a name
Accumulate(values, value) ==
    IF values.kind = "absent" THEN ListOf(<<value>>)
    ELSE ListOf(Append(values.v, value))

\* line 39: the counter of completed train steps
CountUpdate(n) == n + 1

\* lines 64-69 and 39-40: the step's metrics are accumulated, the step is
\* counted, and the count is stored under "update_count"
FinishTrainStep ==
    /\ pc = "accumulate"
    /\ LET mets == StepMetrics(frame)
           count == CountUpdate(_update_count)
       IN  /\ _update_count' = count
           /\ _metrics' = [n \in MetricNames |->
                             IF n = "update_count" THEN IntOf(count)
                             ELSE Accumulate(_metrics[n], mets[n])]
           /\ hist' = [hist EXCEPT
                         !.call_steps = @ + 1,
                         !.window = [n \in MetricNames |->
                             Append(@[n], IF n = "update_count" THEN count ELSE mets[n])]]
    /\ frame' = [frame EXCEPT !.i = @ + 1]
    /\ pc' = "call_loop"
    /\ UNCHANGED <<err, cfg, num_envs, traindir_steps, ckpt, logger_step, logged,
                   _num_train_steps, pretrained, _step, params, dataset_pos, sim>>
    /\ UNCHANGED kernel_vars

\* line 41: are the accumulated metrics written in this call (log_every # 0
\* whenever the modulo is evaluated)
ShouldLog == ~pretrained \/ _step % cfg.log_every = 0

\* lines 42-43: the scalar written for every name of _metrics
LoggedScalars(m) == [n \in MetricNames |->
                        IF m[n].kind = "absent" THEN Absent
                        ELSE [kind |-> "scalar", v |-> <<NpMean(m[n])>>]]

\* (mutant) the lists are kept after a write
ClearedMetricsKept(m) == m

\* line 44: every name of _metrics gets an empty list
ClearedMetrics(m) == [n \in MetricNames |->
                         IF m[n].kind = "absent" THEN Absent ELSE ListOf(<<>>)]

\* (mutant) the counter advances by one per call
NextStepPerCall == _step + 1

\* line 47: the agent's step counter after a training call
NextStep == _step + num_envs

\* lines 41-52: the train steps of the call are done; the metrics are
\* written when due, the step counters advance and the policy is queried.
\* The modulo of line 41 raises when log_every is zero.
EndCall ==
    /\ pc = "call_loop"
    /\ frame.i >= frame.num_steps
    /\ IF pretrained /\ cfg.log_every = 0
       THEN /\ pc' = "failed"
            /\ err' = "ZeroDivisionError"
            /\ UNCHANGED <<logger_step, logged, agent_vars, hist>>
       ELSE /\ IF ShouldLog
               THEN /\ logged' = LoggedScalars(_metrics)
                    /\ _metrics' = ClearedMetrics(_metrics)
                    /\ hist' = [hist EXCEPT
                                  !.writes = @ + 1,
                                  !.write_step = _step,
                                  !.call_wrote = TRUE,
                                  !.write_count = _update_count,
                                  !.reported = hist.window,
                                  !.window = [n \in MetricNames |-> <<>>],
                                  !.queried = TRUE,
                                  !.explore = Explore(NextStep),
                                  !.explore_off = @ \/ ~Explore(NextStep)]
               ELSE /\ UNCHANGED <<logged, _metrics>>
                    /\ hist' = [hist EXCEPT
                                  !.queried = TRUE,
                                  !.explore = Explore(NextStep),
                                  !.explore_off = @ \/ ~Explore(NextStep)]
            /\ pretrained' = TRUE
            /\ _step' = NextStep
            /\ logger_step' = cfg.action_repeat * NextStep
            /\ pc' = "train_sim"
            /\ err' = err
            /\ UNCHANGED <<_num_train_steps, _update_count, params>>
    /\ UNCHANGED <<cfg, num_envs, traindir_steps, ckpt, dataset_pos, frame, sim>>
    /\ UNCHANGED kernel_vars

----------------------------------------------------------------------------

Next ==
    \/ Startup
    \/ Prefill
    \/ Construct
    \/ LoadCheckpoint
    \/ LoopTest
    \/ EvalStart
    \/ EvalCall
    \/ EvalEnd
    \/ TrainStart
    \/ SimulateStep
    \/ SimulateReturn
    \/ SaveCheckpoint
    \/ CallBegin
    \/ PullBatch
    \/ WorldModelTrain
    \/ ActorCriticTrain
    \/ FinishTrainStep
    \/ EndCall

Spec == Init /\ [][Next]_vars

----------------------------------------------------------------------------
(* Properties of the agent and of main *)

AgentExists == pc \notin {"startup", "prefill", "construct", "raised"}

\* A training call has returned and no other has begun since.
CallReturned == hist.train_calls > 0 /\ pc \in {"train_sim", "save", "loop",
                    "eval_phase", "eval_sim", "train_phase", "done"}

\* C1: no agent is ever constructed with a zero or negative number of train
\* steps per call: construction raises for every such configuration.
C1_TrainStepsPositive == AgentExists => _num_train_steps > 0

\* C2: the pretraining phase (config.pretrain train steps in one call) runs at
\* most once, only in the first training call of an agent started without a
\* checkpoint, never after a checkpoint was loaded; every other training call
\* that returns has run exactly _num_train_steps train steps.
C2_PretrainOnceOthersNumTrainSteps ==
    /\ hist.pretrain_runs <= 1
    /\ hist.had_ckpt /\ AgentExists /\ pc # "load_checkpoint" => pretrained
    /\ hist.had_ckpt => hist.pretrain_runs = 0
    /\ hist.call_pretrain => hist.train_calls = 1 /\ ~hist.had_ckpt
    /\ CallReturned =>
          hist.call_steps = IF hist.call_pretrain THEN cfg.pretrain
                            ELSE _num_train_steps

\* C3: every train step pulls one batch, updates the world model on that
\* batch and then trains the actor-critic from the posterior of that same
\* update: the k-th actor-critic update follows the k-th world-model update,
\* which is on the k-th batch pulled, and is seeded with its posterior.
C3_TrainStepOrder ==
    /\ hist.wm_updates <= dataset_pos
    /\ dataset_pos <= hist.wm_updates + 1
    /\ hist.ac_updates <= hist.wm_updates
    /\ hist.wm_updates <= hist.ac_updates + 1
    /\ hist.wm_batch = hist.wm_updates
    /\ hist.ac_seed = hist.ac_updates
    /\ pc = "ac_train" => hist.wm_updates = dataset_pos /\ frame.post = frame.data
    /\ pc = "accumulate" => hist.ac_updates = dataset_pos

C3_Witness == pc = "accumulate" /\ hist.ac_updates >= 2 /\ hist.train_calls >= 2

\* C4: a world-model or actor-critic pass that raises ends the run there: it
\* is not caught, nothing runs after it, _step, pretrained and logger.step
\* are as at the entry of the call, and _update_count counts the train steps
\* that completed.
C4_TrainFailurePropagates ==
    [][/\ hist'.train_raised =>
            /\ pc' = "failed" /\ err' = "TrainError"
            /\ _step' = hist'.entry.step
            /\ pretrained' = hist'.entry.pretrained
            /\ logger_step' = hist'.entry.logger_step
            /\ _update_count' = hist'.ac_updates
       /\ hist.train_raised => UNCHANGED vars]_vars

C4_Witness ==
    /\ pc = "failed" /\ hist.train_raised
    /\ _update_count >= 1 /\ hist.entry.pretrained /\ hist.entry.step > 0

\* C5: every iteration of main's loop ends its training phase with a larger
\* agent._step than it began with, which is what makes the loop terminate.
C5_TrainingPhaseAdvances == pc = "save" => _step > hist.iter_step

\* C6: when main's loop has exited and eval_episode_num > 0, some evaluation
\* began at a moment when agent._step >= config.steps.
C6_EvalAfterSteps ==
    pc = "done" /\ cfg.eval_episode_num > 0 => hist.eval_after

\* The mean m is the average of the non-empty sequence w
IsAverageOf(m, w) == ~m.nan /\ m.sum * Len(w) = SumSeq(w) * m.n

\* The mean m is the last element of the non-empty sequence w
IsLatestOf(m, w) == ~m.nan /\ m.sum = w[Len(w)] * m.n

\* The lists of _metrics hold exactly the values produced since the latest
\* write: a write empties every list, and no value is dropped or kept.
WindowsSinceWrite ==
    \A n \in MetricNames :
        /\ _metrics[n].kind = "list" => _metrics[n].v = hist.window[n]
        /\ _metrics[n].kind = "absent" => hist.window[n] = <<>>
        /\ _metrics[n].kind = "int" => hist.window[n] # <<>>

\* C7 as stated: every scalar of the latest write, under whatever name, is
\* the average of a non-empty window, the values the train steps produced
\* for that name since the write before; and a write empties every window.
C7_EveryScalarIsWindowAverage ==
    /\ WindowsSinceWrite
    /\ \A n \in MetricNames :
          IF logged[n].kind = "scalar"
          THEN /\ hist.reported[n] # <<>>
               /\ IsAverageOf(logged[n].v[1], hist.reported[n])
          ELSE hist.reported[n] = <<>>

\* C7 amended: every scalar of the latest write under a name other than
\* update_count is the average of the values the train steps produced for
\* that name since the write before, update_count is the latest count, a
\* name with no value since the write before is written as NaN, and a write
\* empties every window.
C7_ScalarIsWindowAverageExceptCount ==
    /\ WindowsSinceWrite
    /\ \A n \in MetricNames :
          IF logged[n].kind = "scalar"
          THEN IF hist.reported[n] = <<>> THEN logged[n].v[1].nan
               ELSE IF n = "update_count"
                    THEN IsLatestOf(logged[n].v[1], hist.reported[n])
                    ELSE IsAverageOf(logged[n].v[1], hist.reported[n])
          ELSE hist.reported[n] = <<>>

C7_Witness ==
    /\ hist.writes >= 2
    /\ Len(hist.reported["model_loss"]) >= 2
    /\ logged["actor_loss"].kind = "scalar"
    /\ logged["update_count"].kind = "scalar"
    /\ \A n \in MetricNames : _metrics[n] = ListOf(<<>>)

\* Between two iterations of main's loop, while evaluating, and when main is done
Saved == pc \in {"loop", "eval_phase", "eval_sim", "train_phase", "done"}

\* C8: the checkpoint is loaded at most once, before the agent is ever
\* called, and is written only by main's save after simulate has returned;
\* whenever main is between training phases or done, every training call made
\* so far is covered by a save and the file holds the agent's current
\* parameters.
C8_CheckpointBetweenTrainingCalls ==
    [][/\ ckpt' # ckpt => pc = "save" /\ pc' = "loop"
       /\ hist'.loads # hist.loads =>
            pc = "load_checkpoint" /\ ~hist.called /\ hist.loads = 0
       /\ Saved' =>
            /\ hist'.saved_calls = hist'.train_calls
            /\ hist'.train_calls > 0 => ckpt'.exists
            /\ ckpt'.exists => ckpt'.params = params']_vars

C8_Witness ==
    /\ pc = "done" /\ hist.had_ckpt /\ hist.loads = 1
    /\ hist.train_calls >= 2 /\ params.ac >= 2 /\ cfg.eval_episode_num > 0
    /\ ckpt.params = params

\* C13: in a sequence of training calls, whatever the number of environments
\* and the starting step, no more than log_every agent steps elapse between
\* two consecutive metric writes (or between the start of the sequence and the
\* first write): when a training call returns without having written, _step
\* is at most log_every past the step of the latest write, so that the
\* metrics it left accumulated are written within the cadence.
C13_WriteEveryLogEvery ==
    CallReturned /\ ~hist.call_wrote => _step - hist.write_step <= cfg.log_every

\* C14: the agent's _step never decreases; a training call that returns has
\* increased it by exactly len(done), one per environment, however many train
\* steps it ran; and after every training call logger.step is
\* action_repeat * _step.
C14_StepAdvancesByEnvs ==
    [][/\ AgentExists => _step' >= _step
       /\ AgentExists /\ _step' # _step =>
            /\ pc = "call_loop" /\ pc' = "train_sim"
            /\ hist.call_steps = frame.num_steps \/ frame.num_steps < 0
       /\ pc = "call_loop" /\ pc' = "train_sim" =>
            /\ _step' = _step + num_envs
            /\ _step = hist.entry.step
       /\ CallReturned' => logger_step' = cfg.action_repeat * _step']_vars

C14_Witness ==
    /\ CallReturned /\ hist.call_steps >= 2 /\ hist.call_steps # num_envs
    /\ num_envs >= 2 /\ cfg.action_repeat >= 2 /\ hist.entry.step >= 1
    /\ _step = hist.entry.step + num_envs
    /\ logger_step = cfg.action_repeat * _step

\* C15: an agent call with training=False leaves the training state as it
\* is: it pulls no batch, runs no train step, and changes none of _step,
\* _update_count, pretrained, the accumulated metrics, logger.step, the
\* parameters or what was last written; so does the whole evaluation phase.
C15_EvalCallFrame ==
    [][(pc = "eval_phase" \/ pc = "eval_sim") =>
          /\ UNCHANGED <<agent_vars, logger_step, logged, dataset_pos>>
          /\ hist'.wm_updates = hist.wm_updates
          /\ hist'.ac_updates = hist.ac_updates
          /\ hist'.train_calls = hist.train_calls
          /\ hist'.writes = hist.writes]_vars

C15_Witness ==
    /\ pc = "eval_sim" /\ sim.episode >= 1 /\ hist.called
    /\ hist.train_calls >= 2 /\ _update_count >= 2 /\ _step >= 2
    /\ _metrics["model_loss"].kind = "list" /\ Len(_metrics["model_loss"].v) >= 1

\* The agent exists and no call of it is in progress
BetweenCalls ==
    pc \in {"load_checkpoint", "loop", "eval_phase", "eval_sim", "train_phase",
            "train_sim", "save", "done"}

\* C16: between agent calls _update_count is the number of train steps
\* completed and the number of batches pulled since construction (it grows by
\* one per train step and by nothing else), and the update_count scalar of
\* every write is the count at the time of that write.
C16_UpdateCountIsStepsAndBatches ==
    /\ BetweenCalls =>
          /\ _update_count = hist.ac_updates
          /\ _update_count = dataset_pos
    /\ AgentExists => _update_count <= hist.ac_updates
                      /\ hist.ac_updates <= _update_count + 1
    /\ hist.writes > 0 /\ logged["update_count"].kind = "scalar" =>
          /\ ~logged["update_count"].v[1].nan
          /\ logged["update_count"].v[1].sum
                = hist.write_count * logged["update_count"].v[1].n

\* C17: the explore flag a call passes to the policy is true exactly when the
\* agent's _step, after the increment of that call if it trains, is below
\* expl_until; and once a call has passed explore = False every later call of
\* the agent passes False.
C17_ExploreUntil ==
    hist.queried =>
        /\ hist.explore <=> _step < cfg.expl_until
        /\ hist.explore_off => ~hist.explore

C17_Witness ==
    /\ pc = "eval_sim" /\ sim.episode >= 1
    /\ hist.queried /\ hist.explore_off /\ ~hist.explore
    /\ cfg.expl_until > 0 /\ num_envs = 1
    /\ hist.train_calls >= 2 /\ _step = cfg.expl_until
    /\ hist.entry.step < cfg.expl_until

----------------------------------------------------------------------------
(* The lambda-return recursion of the actor-critic's target computation *)

MaxHorizon == 3
MaxValue == 2
LambdaDen == 2

RewardValues == {0, 1}
DiscountValues == {0, 1}

RECURSIVE Pow(_, _)
Pow(b, e) == IF e = 0 THEN 1 ELSE b * Pow(b, e - 1)

\* lambda is l / LambdaDen.  ScaledTarget(t, ...) is target[t] * LambdaDen^(H-t),
\* which keeps the recursion
\*   target[H] = value[H]
\*   target[t] = reward[t] + discount[t]*((1-lambda)*value[t+1] + lambda*target[t+1])
\* in the integers.
RECURSIVE ScaledTarget(_, _, _, _, _, _)
ScaledTarget(t, H, reward, discount, value, l) ==
    IF t = H THEN value[H]
    ELSE reward[t] * Pow(LambdaDen, H - t)
         + discount[t] * ((LambdaDen - l) * value[t + 1] * Pow(LambdaDen, H - t - 1)
                          + l * ScaledTarget(t + 1, H, reward, discount, value, l))

\* (mutant) the weights of the next value and of the next target are exchanged
RECURSIVE ScaledTargetSwapped(_, _, _, _, _, _)
ScaledTargetSwapped(t, H, reward, discount, value, l) ==
    IF t = H THEN value[H]
    ELSE reward[t] * Pow(LambdaDen, H - t)
         + discount[t] * (l * value[t + 1] * Pow(LambdaDen, H - t - 1)
                          + (LambdaDen - l)
                            * ScaledTargetSwapped(t + 1, H, reward, discount, value, l))

LambdaReturnSwapped(H, reward, discount, value, l) ==
    [t \in 0..H |-> ScaledTargetSwapped(t, H, reward, discount, value, l)]

\* The targets of a rollout of horizon H, target[t] scaled by LambdaDen^(H-t)
LambdaReturn(H, reward, discount, value, l) ==
    [t \in 0..H |-> ScaledTarget(t, H, reward, discount, value, l)]

\* Main's variables while a kernel is what runs
MainIdle ==
    /\ pc = "kernel"
    /\ err = "none"
    /\ cfg = [batch_size |-> 1, batch_length |-> 1, train_ratio |-> 1, pretrain |-> 0,
              action_repeat |-> 1, steps |-> 0, eval_every |-> 0, log_every |-> 0,
              eval_episode_num |-> 0, prefill |-> 0, expl_until |-> 0]
    /\ num_envs = 1
    /\ traindir_steps = 0
    /\ ckpt = NoCkpt
    /\ logger_step = 0
    /\ logged = [n \in MetricNames |-> Absent]
    /\ _num_train_steps = 0
    /\ pretrained = FALSE
    /\ _metrics = [n \in MetricNames |-> Absent]
    /\ _step = 0
    /\ _update_count = 0
    /\ params = NoCkpt.params
    /\ dataset_pos = 0
    /\ frame = NoFrame
    /\ sim = NoSim
    /\ hist = NoHist

\* A rollout of horizon H: rewards and discounts of steps 0..H-1, values of
\* steps 0..H, and lambda = l / LambdaDen in [0, 1]
InitLambda ==
    /\ MainIdle
    /\ ema = NoEma
    /\ world = NoWorld
    /\ imag = NoImag
    /\ \E H \in 1..MaxHorizon :
         lam \in [stage : {"input"}, H : {H},
                  reward : [0..(H - 1) -> RewardValues],
                  discount : [0..(H - 1) -> DiscountValues],
                  value : [0..H -> 0..MaxValue],
                  l : 0..LambdaDen,
                  target : {<<>>}]

\* _compute_target: the targets of the rollout are computed
ComputeTarget ==
    /\ lam.stage = "input"
    /\ lam' = [lam EXCEPT !.stage = "done",
                          !.target = LambdaReturn(lam.H, lam.reward, lam.discount,
                                                  lam.value, lam.l)]
    /\ UNCHANGED <<main_vars, ema, world, imag>>

NextLambda == ComputeTarget

SpecLambda == InitLambda /\ [][NextLambda]_vars

\* The rollout has zero rewards and discount 1 at every step
ZeroRewardUnitDiscount ==
    \A t \in 0..(lam.H - 1) : lam.reward[t] = 0 /\ lam.discount[t] = 1

\* target[t] == value[u], with target[t] scaled as LambdaReturn scales it
TargetIsValue(t, u) == lam.target[t] = lam.value[u] * Pow(LambdaDen, lam.H - t)

\* C9 as stated: with zero rewards and discount 1 everywhere,
\* target[t] == value[t+1] for every t < H (t = H-1 included), whatever
\* lambda and the values are.
C9_TargetIsNextValue ==
    lam.stage = "done" /\ ZeroRewardUnitDiscount =>
        \A t \in 0..(lam.H - 1) : TargetIsValue(t, t + 1)

\* C9 amended: with zero rewards and discount 1 everywhere,
\* target[H-1] == value[H] for every lambda and every value sequence;
\* target[t] == value[t+1] for all t < H-1 when lambda = 0; and for every
\* lambda target[t] lies between the least and the greatest of value[t+1..H].
C9_TargetIsNextValueAtLambdaZero ==
    lam.stage = "done" /\ ZeroRewardUnitDiscount =>
        /\ TargetIsValue(lam.H - 1, lam.H)
        /\ lam.l = 0 => \A t \in 0..(lam.H - 1) : TargetIsValue(t, t + 1)
        /\ \A t \in 0..(lam.H - 1) :
             /\ \E u \in (t + 1)..lam.H :
                  lam.target[t] >= lam.value[u] * Pow(LambdaDen, lam.H - t)
             /\ \E u \in (t + 1)..lam.H :
                  lam.target[t] <= lam.value[u] * Pow(LambdaDen, lam.H - t)

C9_Witness ==
    /\ lam.stage = "done" /\ ZeroRewardUnitDiscount
    /\ lam.H >= 3 /\ lam.l = 0
    /\ lam.value[1] # lam.value[2] /\ lam.value[2] # lam.value[3]
    /\ TargetIsValue(0, 1)

----------------------------------------------------------------------------
(* The EMA percentile update of the actor-critic's return normalisation *)

MaxCalls == 2
MaxTargetLen == 2
MaxTarget == 2
DecayDen == 2

\* The two percentiles kept, the 5th and the 95th, as Quantiles[i] / QuantileDen
QuantileDen == 20
Quantiles == <<1, QuantileDen - 1>>

\* s with x inserted before the first larger element (s is sorted)
RECURSIVE Insert(_, _)
Insert(s, x) ==
    IF s = <<>> THEN <<x>>
    ELSE IF x <= Head(s) THEN <<x>> \o s
    ELSE <<Head(s)>> \o Insert(Tail(s), x)

RECURSIVE Sorted(_)
Sorted(s) == IF s = <<>> THEN <<>> ELSE Insert(Sorted(Tail(s)), Head(s))

\* percentile_i(targets) * QuantileDen: the quantile q / QuantileDen of the
\* targets, linearly interpolated between the two nearest order statistics
Percentile(targets, q) ==
    LET s == Sorted(targets)
        pos == q * (Len(s) - 1)
        lo == pos \div QuantileDen
        fr == pos % QuantileDen
    IN  IF fr = 0 THEN s[lo + 1] * QuantileDen
        ELSE s[lo + 1] * (QuantileDen - fr) + s[lo + 2] * fr

\* ema_vals are kept as multiples of 1 / EmaScale, decay as d / DecayDen; the
\* scale makes MaxCalls updates exact.
EmaUnit == Pow(DecayDen, MaxCalls)
EmaScale == QuantileDen * EmaUnit

\* (mutant) decay weighs the new percentile instead of the old value
EmaUpdateSwapped(vals, d, targets) ==
    [i \in 1..2 |->
        ((DecayDen - d) * vals[i] + d * Percentile(targets, Quantiles[i]) * EmaUnit)
        \div DecayDen]

\* ema_vals[i] = decay*ema_vals[i] + (1-decay)*percentile_i(targets)
EmaUpdate(vals, d, targets) ==
    [i \in 1..2 |->
        (d * vals[i] + (DecayDen - d) * Percentile(targets, Quantiles[i]) * EmaUnit)
        \div DecayDen]

\* An actor-critic with some ema_vals and some decay, not yet called
InitEma ==
    /\ MainIdle
    /\ lam = NoLam
    /\ world = NoWorld
    /\ imag = NoImag
    /\ \E init \in [1..2 -> 0..1], d \in 0..DecayDen :
         ema = [stage |-> "run",
                decay |-> d,
                init_vals |-> [i \in 1..2 |-> init[i] * EmaScale],
                vals |-> [i \in 1..2 |-> init[i] * EmaScale],
                targets |-> <<>>,
                calls |-> 0]

\* One call of reward_ema(targets, ema_vals); the result is carried on
EmaCall ==
    /\ ema.stage = "run"
    /\ ema.calls < MaxCalls
    /\ \E n \in 1..MaxTargetLen :
         \E targets \in [1..n -> 0..MaxTarget] :
            ema' = [ema EXCEPT !.vals = EmaUpdate(ema.vals, ema.decay, targets),
                               !.targets = targets,
                               !.calls = @ + 1]
    /\ UNCHANGED <<main_vars, lam, world, imag>>

NextEma == EmaCall

SpecEma == InitEma /\ [][NextEma]_vars

\* C10: with decay = 1 ema_vals are, after any number of calls, what they
\* were before the first; with decay = 0 they are, after a call, the exact
\* percentiles of that call's targets, whatever they were before.
C10_EmaDecayExtremes ==
    ema.stage = "run" =>
        /\ ema.decay = DecayDen => ema.vals = ema.init_vals
        /\ ema.decay = 0 /\ ema.calls >= 1 =>
             \A i \in 1..2 :
                ema.vals[i] = Percentile(ema.targets, Quantiles[i]) * EmaUnit

C10_Witness ==
    /\ ema.stage = "run" /\ ema.decay = 0 /\ ema.calls >= 2
    /\ Len(ema.targets) >= 2 /\ ema.targets[1] > ema.targets[2]
    /\ ema.vals # ema.init_vals
    /\ ema.vals[1] # ema.vals[2]

----------------------------------------------------------------------------
(* The shapes of the world model's posterior and of an imagination rollout. *)
(* A tensor is kept as its shape, the tuple of its dimensions.              *)

MaxBatch == 2
MaxLength == 2
MaxImagHorizon == 2
MaxGroups == 2
MaxClasses == 2
MaxDeter == 2
MaxActions == 2
MaxTrainCalls == 2

\* The sizes a world model is configured with
Sizes == [num_groups : 1..MaxGroups, num_classes : 1..MaxClasses,
          deter_size : 1..MaxDeter, num_actions : 1..MaxActions,
          imag_horizon : 1..MaxImagHorizon]

Front(shape) == SubSeq(shape, 1, Len(shape) - 1)
Last(shape) == shape[Len(shape)]

\* n tensors of one shape stacked along a new leading axis
StackAll(shapes) == <<Len(shapes)>> \o shapes[1]

\* the two leading axes exchanged
SwapLead(shape) == <<shape[2], shape[1]>> \o SubSeq(shape, 3, Len(shape))

\* the two leading axes merged into one
FlattenLead(shape) == <<shape[1] * shape[2]>> \o SubSeq(shape, 3, Len(shape))

\* the two last axes merged into one
FlattenLast(shape) == SubSeq(shape, 1, Len(shape) - 2)
                      \o <<shape[Len(shape) - 1] * Last(shape)>>

\* two tensors with the same leading axes concatenated along the last axis
ConcatLast(a, b) == Front(a) \o <<Last(a) + Last(b)>>

\* v.reshape(lead + v.shape[1:])
ReshapeLead(lead, shape) == lead \o Tail(shape)

\* dynamics.initial(n): the latent state of a batch of n
Initial(n, size) == [stoch |-> <<n, size.num_groups, size.num_classes>>,
                     deter |-> <<n, size.deter_size>>]

\* dynamics.get_feat(state): the deterministic vector concatenated with the
\* flattened stochastic sample
GetFeat(state) == ConcatLast(state.deter, FlattenLast(state.stoch))

\* One step of the dynamics (obs_step or img_step) from a latent state: the
\* latent state of the same batch
DynamicsStep(state, size) == Initial(state.deter[1], size)

\* (mutant) the sequence of posteriors is returned time-major
ObserveTimeMajor(batch, size) ==
    LET step == DynamicsStep(Initial(batch[1], size), size)
    IN  [k \in {"stoch", "deter"} |-> StackAll([t \in 1..batch[2] |-> step[k]])]

\* dynamics.observe on a (B,T) batch: one step per timestep from the initial
\* state, the T posteriors stacked and returned batch-major
Observe(batch, size) ==
    LET step == DynamicsStep(Initial(batch[1], size), size)
    IN  [k \in {"stoch", "deter"} |->
            SwapLead(StackAll([t \in 1..batch[2] |-> step[k]]))]

\* (mutant) the rollout is as long as the seed sequence
RolloutLengthOfSeed(w) == w.batch[2]

\* The number of steps of an imagination rollout
RolloutLength(w) == w.size.imag_horizon

\* A world model of some sizes and a (B,T) batch, not yet trained
InitShapes ==
    /\ MainIdle
    /\ lam = NoLam
    /\ ema = NoEma
    /\ \E size \in Sizes, B \in 1..MaxBatch, T \in 1..MaxLength :
         world = [stage |-> "built", size |-> size, batch |-> <<B, T>>,
                  calls |-> 0, post |-> Initial(0, size), feat |-> <<>>]
    /\ imag = NoImag

\* world_model.train(data) on the batch: the posterior of the batch and its
\* features are returned
WorldModelTrainCall ==
    /\ world.stage = "built"
    /\ imag.stage \in {"idle", "done"}
    /\ world.calls < MaxTrainCalls
    /\ LET post == Observe(world.batch, world.size)
       IN  world' = [world EXCEPT !.calls = @ + 1,
                                  !.post = post,
                                  !.feat = GetFeat(post)]
    /\ UNCHANGED <<main_vars, lam, ema, imag>>

\* dynamics.initial(B * T) with every tensor reshaped to (B, T) + shape[1:]
ReshapedInitial(w) ==
    LET start == Initial(w.batch[1] * w.batch[2], w.size)
    IN  [k \in {"stoch", "deter"} |-> ReshapeLead(w.batch, start[k])]

\* actor_critic._imagine(start) begins: the seed is the reshaped initial
\* state or the posterior the latest train call returned; it is flattened to
\* one batch
ImagineBegin ==
    /\ world.stage = "built"
    /\ imag.stage \in {"idle", "done"}
    /\ \E from \in {"initial", "post"} :
         /\ from = "post" => world.calls >= 1
         /\ LET seed == IF from = "post" THEN world.post ELSE ReshapedInitial(world)
            IN  imag' = [stage |-> "rolling", from |-> from, seed |-> seed,
                         state |-> [k \in {"stoch", "deter"} |-> FlattenLead(seed[k])],
                         feats |-> <<>>, stochs |-> <<>>, deters |-> <<>>,
                         actions |-> <<>>,
                         out |-> [feats |-> <<>>, stoch |-> <<>>, deter |-> <<>>,
                                  actions |-> <<>>]]
    /\ UNCHANGED <<main_vars, lam, ema, world>>

\* One step of the rollout: the features of the current state, an action of
\* the policy, the prior transition; feature, state and action are recorded
ImagineStep ==
    /\ imag.stage = "rolling"
    /\ Len(imag.feats) < RolloutLength(world)
    /\ LET feat == GetFeat(imag.state)
           action == <<imag.state.deter[1], world.size.num_actions>>
           state == DynamicsStep(imag.state, world.size)
       IN  imag' = [imag EXCEPT !.state = state,
                                !.feats = Append(@, feat),
                                !.stochs = Append(@, state.stoch),
                                !.deters = Append(@, state.deter),
                                !.actions = Append(@, action)]
    /\ UNCHANGED <<main_vars, lam, ema, world>>

\* The rollout is over: the recorded steps are stacked and returned
ImagineEnd ==
    /\ imag.stage = "rolling"
    /\ Len(imag.feats) >= RolloutLength(world)
    /\ imag' = [imag EXCEPT !.stage = "done",
                            !.out = [feats |-> StackAll(imag.feats),
                                     stoch |-> StackAll(imag.stochs),
                                     deter |-> StackAll(imag.deters),
                                     actions |-> StackAll(imag.actions)]]
    /\ UNCHANGED <<main_vars, lam, ema, world>>

NextShapes ==
    \/ WorldModelTrainCall
    \/ ImagineBegin
    \/ ImagineStep
    \/ ImagineEnd

SpecShapes == InitShapes /\ [][NextShapes]_vars

\* C11: an imagination rollout seeded with a (B,T) batch of latent states
\* returns features, states and actions whose leading dimension is the
\* imagination horizon H, whatever T is, and whose second dimension is B*T,
\* with per-step shapes feature = deter_size + num_groups*num_classes,
\* stoch = (num_groups, num_classes), deter = deter_size, action = num_actions.
C11_ImagineShapes ==
    imag.stage = "done" =>
        LET size == world.size
            H == size.imag_horizon
            n == world.batch[1] * world.batch[2]
        IN  /\ imag.out.feats =
                  <<H, n, size.deter_size + size.num_groups * size.num_classes>>
            /\ imag.out.stoch = <<H, n, size.num_groups, size.num_classes>>
            /\ imag.out.deter = <<H, n, size.deter_size>>
            /\ imag.out.actions = <<H, n, size.num_actions>>

C11_Witness ==
    /\ imag.stage = "done" /\ imag.from = "post"
    /\ world.batch[1] >= 2 /\ world.batch[2] >= 2
    /\ world.size.imag_horizon # world.batch[2]
    /\ world.size.num_groups # world.size.num_classes
    /\ imag.out.feats[1] = world.size.imag_horizon
    /\ imag.out.actions[2] = world.batch[1] * world.batch[2]

\* C12: after any number of train calls on the same (B,T) batch the posterior
\* returned has stochastic component (B,T,num_groups,num_classes),
\* deterministic vector (B,T,deter_size) and feature
\* (B,T,deter_size+num_groups*num_classes).
C12_PosteriorShapes ==
    world.stage = "built" /\ world.calls >= 1 =>
        LET size == world.size
            B == world.batch[1]
            T == world.batch[2]
        IN  /\ world.post.stoch = <<B, T, size.num_groups, size.num_classes>>
            /\ world.post.deter = <<B, T, size.deter_size>>
            /\ world.feat =
                  <<B, T, size.deter_size + size.num_groups * size.num_classes>>

C12_Witness ==
    /\ world.stage = "built" /\ world.calls >= 2
    /\ world.batch[1] # world.batch[2]
    /\ world.size.num_groups # world.size.num_classes
    /\ world.post.stoch[1] = world.batch[1]
    /\ Len(world.feat) = 3

====
